---- MODULE Spec2Model ----
(***************************************************************************)
(* The help-post classifier (backend/insights/unwrap.py), its narrower     *)
(* copy used by the scraper (backend/scraper/unwrap.py) and the scraper    *)
(* loop (backend/scraper/main.py).                                         *)
(*                                                                         *)
(* A Python str is modelled as the sequence of its characters, each        *)
(* character a one-character TLA+ string, so that lower(), re.sub and the  *)
(* `in` operator work on characters as they do in the code.                *)
(***************************************************************************)
EXTENDS Integers, Sequences, FiniteSets, TLC

VARIABLES
    \* --- calls of the pure functions (specification SpecCore) ---
    title,          \* Post.title of the post under classification
    selftext,       \* Post.selftext of the post under classification
    cpc,            \* "start" | "returned" | "renormalized" | "off"
    module,         \* "insights" | "scraper": whose function was called
    call,           \* "normalize" | "matches_keywords" | "assign_theme"
    arg,            \* the argument of a normalize call
    ret,            \* the value the call returned
    \* --- run_scraper (specification Spec) ---
    pc,             \* "idle" | "fetch" | "loop" | "done" | "crashed" | "off"
    runs,           \* how many times run_scraper has been started
    sub_idx,        \* position of the outer loop in target_subs
    yielded,        \* permalinks the current listing has yielded
    table,          \* the rows of the reddit_posts table
    stdout,         \* the kind of the last line printed
    lastAccepted,   \* history: url -> post_data of its latest accepted processing
    lastSaved       \* history: url -> post_data of its latest upsert that succeeded

coreVars == <<title, selftext, cpc, module, call, arg, ret>>
scraperVars == <<pc, runs, sub_idx, yielded, table, stdout, lastAccepted, lastSaved>>
vars == <<title, selftext, cpc, module, call, arg, ret,
          pc, runs, sub_idx, yielded, table, stdout, lastAccepted, lastSaved>>

(***************************************************************************)
(* Characters                                                              *)
(***************************************************************************)
\* Python's None, kept apart from every str: a one-element tuple whose
\* element is no character.
None == <<"<None>">>

\* The characters re's \s matches, among those the inputs use.
Whitespace == {" ", "\t", "\n", "\r"}

UpperLetters == <<"A","B","C","D","E","F","G","H","I","J","K","L","M",
                  "N","O","P","Q","R","S","T","U","V","W","X","Y","Z">>
LowerLetters == <<"a","b","c","d","e","f","g","h","i","j","k","l","m",
                  "n","o","p","q","r","s","t","u","v","w","x","y","z">>

\* str.lower() on one character.
chr_lower(c) ==
    IF \E i \in DOMAIN UpperLetters : UpperLetters[i] = c
    THEN LowerLetters[CHOOSE i \in DOMAIN UpperLetters : UpperLetters[i] = c]
    ELSE c

\* str.lower()
str_lower(s) == [i \in DOMAIN s |-> chr_lower(s[i])]

\* The first index >= i of s that holds no whitespace (Len(s) + 1 if none):
\* where the greedy match of \s+ that starts at i - 1 ends.
RECURSIVE ws_run_end(_, _)
ws_run_end(s, i) ==
    IF i <= Len(s) /\ s[i] \in Whitespace THEN ws_run_end(s, i + 1) ELSE i

\* re.sub(r"\s+", " ", s) from index i on: left to right, every greedy match
\* of \s+ is replaced by one space and every other character is copied.
RECURSIVE re_sub_ws_from(_, _)
re_sub_ws_from(s, i) ==
    IF i > Len(s) THEN <<>>
    ELSE IF s[i] \in Whitespace
         THEN <<" ">> \o re_sub_ws_from(s, ws_run_end(s, i + 1))
         ELSE <<s[i]>> \o re_sub_ws_from(s, i + 1)

\* A plausible slip: the pattern \s\s instead of \s+ (pairs of whitespace
\* are replaced, a single whitespace character is not a match).
RECURSIVE re_sub_ws_pairs_from(_, _)
re_sub_ws_pairs_from(s, i) ==
    IF i > Len(s) THEN <<>>
    ELSE IF s[i] \in Whitespace /\ i < Len(s) /\ s[i + 1] \in Whitespace
         THEN <<" ">> \o re_sub_ws_pairs_from(s, i + 2)
         ELSE <<s[i]>> \o re_sub_ws_pairs_from(s, i + 1)

\* Python's `p in t` for two str: p occurs in t as a contiguous substring.
str_in(p, t) ==
    \E i \in 0..(Len(t) - Len(p)) : \A j \in 1..Len(p) : t[i + j] = p[j]

\* any(k in t for k in ks)
any_in(ks, t) == \E i \in DOMAIN ks : str_in(ks[i], t)

(***************************************************************************)
(* The string literals of the rule lists, character by character           *)
(***************************************************************************)
w_arduino == <<"a","r","d","u","i","n","o">>
w_esp32 == <<"e","s","p","3","2">>
w_stm32 == <<"s","t","m","3","2">>
w_microcontroller == <<"m","i","c","r","o","c","o","n","t","r","o","l","l","e","r">>
w_embedded == <<"e","m","b","e","d","d","e","d">>
w_gpio == <<"g","p","i","o">>
w_i2c == <<"i","2","c">>
w_spi == <<"s","p","i">>
w_uart == <<"u","a","r","t">>
w_serial == <<"s","e","r","i","a","l">>
w_firmware == <<"f","i","r","m","w","a","r","e">>
w_sensor == <<"s","e","n","s","o","r">>
w_adc == <<"a","d","c">>
w_pwm == <<"p","w","m">>
w_breadboard == <<"b","r","e","a","d","b","o","a","r","d">>
w_i_made == <<"i"," ","m","a","d","e">>
w_huge_update == <<"h","u","g","e"," ","u","p","d","a","t","e">>
w_update_to_my == <<"u","p","d","a","t","e"," ","t","o"," ","m","y">>
w_project_update == <<"p","r","o","j","e","c","t"," ","u","p","d","a","t","e">>
w_showcase == <<"s","h","o","w","c","a","s","e">>
w_tutorial == <<"t","u","t","o","r","i","a","l">>
w_built_this == <<"b","u","i","l","t"," ","t","h","i","s">>
w_my_journey == <<"m","y"," ","j","o","u","r","n","e","y">>
w_help == <<"h","e","l","p">>
w_not_working == <<"n","o","t"," ","w","o","r","k","i","n","g">>
w_doesn_t_work == <<"d","o","e","s","n","'","t"," ","w","o","r","k">>
w_doesnt_work == <<"d","o","e","s","n","t"," ","w","o","r","k">>
w_cant == <<"c","a","n","t">>
w_can_t == <<"c","a","n","'","t">>
w_error == <<"e","r","r","o","r">>
w_problem == <<"p","r","o","b","l","e","m">>
w_beginner == <<"b","e","g","i","n","n","e","r">>
w_newbie == <<"n","e","w","b","i","e">>
w_how_do_i == <<"h","o","w"," ","d","o"," ","i">>
w_why == <<"w","h","y">>
w_confused == <<"c","o","n","f","u","s","e","d">>
w_issue == <<"i","s","s","u","e">>
w_fail == <<"f","a","i","l">>
w_unable == <<"u","n","a","b","l","e">>
w_power == <<"p","o","w","e","r">>
w_voltage == <<"v","o","l","t","a","g","e">>
w_battery == <<"b","a","t","t","e","r","y">>
w_5v == <<"5","v">>
w_3_3v == <<"3",".","3","v">>
w_can == <<"c","a","n">>
w_analog == <<"a","n","a","l","o","g">>
w_voltage_divider == <<"v","o","l","t","a","g","e"," ","d","i","v","i","d","e","r">>
w_compile == <<"c","o","m","p","i","l","e">>
w_upload == <<"u","p","l","o","a","d">>
w_flash == <<"f","l","a","s","h">>

(***************************************************************************)
(* backend/insights/unwrap.py                                              *)
(***************************************************************************)
\* normalize with the slip of re_sub_ws_pairs_from
normalize_pairs(text) ==
    IF text = None \/ Len(text) = 0 THEN <<>>
    ELSE re_sub_ws_pairs_from(str_lower(text), 1)

\* normalize with a strip() added: the collapsed text loses a leading and a
\* trailing space
normalize_strip(text) ==
    IF text = None \/ Len(text) = 0 THEN <<>>
    ELSE LET c == re_sub_ws_from(str_lower(text), 1)
             a == IF Len(c) > 0 /\ c[1] = " " THEN 2 ELSE 1
             b == IF Len(c) > 0 /\ c[Len(c)] = " " THEN Len(c) - 1 ELSE Len(c)
         IN  IF a > b THEN <<>> ELSE SubSeq(c, a, b)

\* `not text` holds of None and of the empty str
normalize(text) ==
    IF text = None \/ Len(text) = 0 THEN <<>>
    ELSE re_sub_ws_from(str_lower(text), 1)

KEYWORDS ==
    << w_arduino, w_esp32, w_stm32, w_microcontroller, w_embedded, w_gpio,
       w_i2c, w_spi, w_uart, w_serial, w_firmware, w_sensor, w_adc, w_pwm,
       w_breadboard >>

BAD_PHRASES ==
    << w_i_made, w_huge_update, w_update_to_my, w_project_update,
       w_showcase, w_tutorial, w_built_this, w_my_journey >>

HELP_SIGNALS ==
    << w_help, w_not_working, w_doesn_t_work, w_doesnt_work, w_cant, w_can_t,
       w_error, w_problem, w_beginner, w_newbie, w_how_do_i, w_why,
       w_confused, w_issue, w_fail, w_unable >>

\* post.title + " " + post.selftext
post_text(post) == post.title \o <<" ">> \o post.selftext

\* matches_keywords without its first loop (the exclusion pass)
matches_keywords_no_exclusion(post) ==
    LET t == normalize(post_text(post))
    IN  any_in(HELP_SIGNALS, t) /\ any_in(KEYWORDS, t)

\* The three loops in order, each with its early return.
matches_keywords(post) ==
    LET t == normalize(post_text(post))
    IN  IF \E i \in DOMAIN BAD_PHRASES : str_in(BAD_PHRASES[i], t)
        THEN FALSE
        ELSE LET has_help_signal ==
                     \E i \in DOMAIN HELP_SIGNALS : str_in(HELP_SIGNALS[i], t)
             IN  IF ~has_help_signal
                 THEN FALSE
                 ELSE IF \E i \in DOMAIN KEYWORDS : str_in(KEYWORDS[i], t)
                      THEN TRUE
                      ELSE FALSE

\* assign_theme with the error group tested before the sensor group
assign_theme_errors_first(post) ==
    LET t == normalize(post_text(post))
    IN  IF any_in(<<w_power, w_voltage, w_battery, w_5v, w_3_3v>>, t)
        THEN "Wiring & Power"
        ELSE IF any_in(<<w_i2c, w_spi, w_uart, w_serial, w_can>>, t)
        THEN "Communication"
        ELSE IF any_in(<<w_error, w_compile, w_upload, w_flash>>, t)
        THEN "Build / Compile Errors"
        ELSE IF any_in(<<w_sensor, w_adc, w_analog, w_voltage_divider>>, t)
        THEN "Analog & Sensors"
        ELSE "General Beginner Help"

\* assign_theme without its last return: Python then returns None
assign_theme_no_default(post) ==
    LET t == normalize(post_text(post))
    IN  IF any_in(<<w_power, w_voltage, w_battery, w_5v, w_3_3v>>, t)
        THEN "Wiring & Power"
        ELSE IF any_in(<<w_i2c, w_spi, w_uart, w_serial, w_can>>, t)
        THEN "Communication"
        ELSE IF any_in(<<w_sensor, w_adc, w_analog, w_voltage_divider>>, t)
        THEN "Analog & Sensors"
        ELSE IF any_in(<<w_error, w_compile, w_upload, w_flash>>, t)
        THEN "Build / Compile Errors"
        ELSE "None"

\* assign_theme with "can" missing from the communication group
assign_theme_no_can(post) ==
    LET t == normalize(post_text(post))
    IN  IF any_in(<<w_power, w_voltage, w_battery, w_5v, w_3_3v>>, t)
        THEN "Wiring & Power"
        ELSE IF any_in(<<w_i2c, w_spi, w_uart, w_serial>>, t)
        THEN "Communication"
        ELSE IF any_in(<<w_sensor, w_adc, w_analog, w_voltage_divider>>, t)
        THEN "Analog & Sensors"
        ELSE IF any_in(<<w_error, w_compile, w_upload, w_flash>>, t)
        THEN "Build / Compile Errors"
        ELSE "General Beginner Help"

assign_theme(post) ==
    LET t == normalize(post_text(post))
    IN  IF any_in(<<w_power, w_voltage, w_battery, w_5v, w_3_3v>>, t)
        THEN "Wiring & Power"
        ELSE IF any_in(<<w_i2c, w_spi, w_uart, w_serial, w_can>>, t)
        THEN "Communication"
        ELSE IF any_in(<<w_sensor, w_adc, w_analog, w_voltage_divider>>, t)
        THEN "Analog & Sensors"
        ELSE IF any_in(<<w_error, w_compile, w_upload, w_flash>>, t)
        THEN "Build / Compile Errors"
        ELSE "General Beginner Help"

(***************************************************************************)
(* backend/scraper/unwrap.py                                               *)
(***************************************************************************)
scraper_normalize(text) ==
    IF text = None \/ Len(text) = 0 THEN <<>>
    ELSE re_sub_ws_from(str_lower(text), 1)

scraper_BAD_PHRASES ==
    << w_i_made, w_huge_update, w_showcase, w_tutorial, w_built_this >>

scraper_HELP_SIGNALS ==
    << w_help, w_not_working, w_error, w_problem, w_beginner, w_issue >>

scraper_KEYWORDS ==
    << w_arduino, w_esp32, w_stm32, w_microcontroller, w_embedded, w_uart,
       w_i2c, w_spi >>

scraper_matches_keywords(post) ==
    LET t == scraper_normalize(post_text(post))
    IN  IF any_in(scraper_BAD_PHRASES, t)
        THEN FALSE
        ELSE LET has_help_signal == any_in(scraper_HELP_SIGNALS, t)
             IN  IF ~has_help_signal
                 THEN FALSE
                 ELSE any_in(scraper_KEYWORDS, t)

scraper_assign_theme(post) ==
    LET t == scraper_normalize(post_text(post))
    IN  IF any_in(<<w_power, w_voltage, w_battery, w_5v, w_3_3v>>, t)
        THEN "Wiring & Power"
        ELSE IF any_in(<<w_i2c, w_spi, w_uart, w_serial, w_can>>, t)
        THEN "Communication"
        ELSE IF any_in(<<w_error, w_compile, w_upload, w_flash>>, t)
        THEN "Build / Compile Errors"
        ELSE IF any_in(<<w_sensor, w_adc, w_analog>>, t)
        THEN "Analog & Sensors"
        ELSE "General Beginner Help"

(***************************************************************************)
(* Inputs of the pure functions                                            *)
(***************************************************************************)
\* The pieces titles are built from: rule words in mixed case, whitespace of
\* several kinds, a word that only contains a keyword, and halves of phrases.
f_Help == <<"H","e","l","p">>
f_space == <<" ">>
f_tab_newline == <<"\t","\n">>
f_I == <<"I">>
f_My_Journey == <<"M","y"," ","\n"," ","J","o","u","r","n","e","y">>
f_Arduino == <<"A","r","d","u","i","n","o">>
f_serialization == <<"s","e","r","i","a","l","i","z","a","t","i","o","n">>
f_sensor == <<"s","e","n","s","o","r">>
f_error == <<"e","r","r","o","r">>
f_Voltage_divider == <<"V","o","l","t","a","g","e"," ","d","i","v","i","d","e","r">>
f_can_t == <<"c","a","n","'","t">>
f_Cant == <<"C","a","n","t">>
f_why == <<"w","h","y">>
f_gpio == <<"G","P","I","O">>

TitleFragments ==
    { f_Help, f_space, f_tab_newline, f_I, f_My_Journey, f_Arduino,
      f_serialization, f_sensor, f_error, f_Voltage_divider, f_can_t, f_Cant,
      f_why, f_gpio }

\* A title is at most MaxFrags fragments, concatenated.
MaxFrags == 2

RECURSIVE Concat(_)
Concat(fs) == IF fs = <<>> THEN <<>> ELSE Head(fs) \o Concat(Tail(fs))

Titles ==
    { Concat(fs) : fs \in UNION { [1..n -> TitleFragments] : n \in 0..MaxFrags } }

b_made_it == <<"m","a","d","e"," "," ","i","t">>
b_esp32_not_working == <<"E","S","P","3","2","\n","n","o","t"," ","w","o","r","k","i","n","g">>

Selftexts == { <<>>, b_made_it, b_esp32_not_working }

(***************************************************************************)
(* Calls of the pure functions: specification SpecCore                     *)
(***************************************************************************)
\* The Post a row of tabular storage gives (load_posts_from_csv with the
\* numeric columns and the url missing).
CorePost ==
    [subreddit |-> <<>>, title |-> title, selftext |-> selftext,
     score |-> 0, num_comments |-> 0, url |-> <<>>]

ScraperOff ==
    /\ pc = "off" /\ runs = 0 /\ sub_idx = 0 /\ yielded = {} /\ table = {}
    /\ stdout = "" /\ lastAccepted = {} /\ lastSaved = {}

CoreInit ==
    /\ title \in Titles
    /\ selftext \in Selftexts
    /\ cpc = "start"
    /\ module = "" /\ call = "" /\ arg = <<>> /\ ret = <<>>
    /\ ScraperOff

Returned(m, f, a, r) ==
    /\ cpc' = "returned"
    /\ module' = m /\ call' = f /\ arg' = a /\ ret' = r
    /\ UNCHANGED <<title, selftext>>
    /\ UNCHANGED scraperVars

\* normalize applied to None, to the title or to the body
InsightsNormalize ==
    /\ cpc = "start"
    /\ \E x \in {None, title, selftext} :
           Returned("insights", "normalize", x, normalize(x))

ScraperNormalize ==
    /\ cpc = "start"
    /\ \E x \in {None, title, selftext} :
           Returned("scraper", "normalize", x, scraper_normalize(x))

\* normalize applied to what normalize returned
NormalizeAgain ==
    /\ cpc = "returned" /\ call = "normalize"
    /\ cpc' = "renormalized"
    /\ arg' = ret
    /\ ret' = IF module = "insights" THEN normalize(ret)
                                     ELSE scraper_normalize(ret)
    /\ UNCHANGED <<title, selftext, module, call>>
    /\ UNCHANGED scraperVars

InsightsMatchesKeywords ==
    /\ cpc = "start"
    /\ Returned("insights", "matches_keywords", <<>>, matches_keywords(CorePost))

InsightsAssignTheme ==
    /\ cpc = "start"
    /\ Returned("insights", "assign_theme", <<>>, assign_theme(CorePost))

ScraperMatchesKeywords ==
    /\ cpc = "start"
    /\ Returned("scraper", "matches_keywords", <<>>,
                scraper_matches_keywords(CorePost))

ScraperAssignTheme ==
    /\ cpc = "start"
    /\ Returned("scraper", "assign_theme", <<>>, scraper_assign_theme(CorePost))

CoreNext ==
    \/ InsightsNormalize
    \/ ScraperNormalize
    \/ NormalizeAgain
    \/ InsightsMatchesKeywords
    \/ InsightsAssignTheme
    \/ ScraperMatchesKeywords
    \/ ScraperAssignTheme

SpecCore == CoreInit /\ [][CoreNext]_vars

(***************************************************************************)
(* backend/scraper/main.py: specification Spec                             *)
(***************************************************************************)
target_subs == <<"arduino", "esp32", "embedded", "stm32">>

\* subreddit.new(limit=50)
limit == 50

\* How many times the script is started.
MaxRuns == 2

\* What the platform may return for a submission of each subreddit: one
\* permalink per subreddit, whose submission changes between fetches (it is
\* edited, voted on, commented on).
a_title == <<"H","e","l","p","!"," ","M","y"," ","A","r","d","u","i","n","o"," ","U","A","R","T"," ","i","s","n","'","t"," ","w","o","r","k","i","n","g">>
b1_title == <<"M","y"," ","j","o","u","r","n","e","y",":"," ","E","S","P","3","2"," ","f","l","a","s","h"," ","e","r","r","o","r">>
b_help == <<"h","e","l","p">>
b2_title == <<"E","S","P","3","2"," ","p","r","o","j","e","c","t"," ","r","o","u","n","d","u","p">>
c1_title == <<"E","m","b","e","d","d","e","d"," ","s","e","n","s","o","r"," ","e","r","r","o","r">>
c2_title == <<"I"," ","m","a","d","e"," ","a","n"," ","A","r","d","u","i","n","o"," ","r","o","b","o","t",","," ","h","e","l","p"," ","n","e","e","d","e","d"," ","w","i","t","h"," ","w","i","r","i","n","g">>
d1_title == <<"S","T","M","3","2"," ","v","o","l","t","a","g","e"," ","e","r","r","o","r">>
d1_selftext == <<"W","h","y","\n","\n","3",".","3","V","?">>

Permalink(sub) == <<"/r/", sub, "/comments/1/">>

Submission(sub, t, s, sc, nc) ==
    [permalink |-> Permalink(sub), title |-> t, selftext |-> s,
     score |-> sc, num_comments |-> nc]

RedditNew(sub) ==
    CASE sub = "arduino" ->
             { Submission(sub, a_title, None, 1, 0),
               Submission(sub, a_title, None, 12, 3) }
      [] sub = "esp32" ->
             { Submission(sub, b1_title, b_help, 5, 2),
               Submission(sub, b2_title, <<>>, 40, 9) }
      [] sub = "embedded" ->
             { Submission(sub, c1_title, <<>>, 2, 1),
               Submission(sub, c2_title, None, 7, 0) }
      [] sub = "stm32" ->
             { Submission(sub, d1_title, d1_selftext, 3, 4) }

\* Post(subreddit=sub_name, title=..., selftext=submission.selftext or "", ...)
Post(sub_name, submission) ==
    [subreddit |-> sub_name,
     title |-> submission.title,
     selftext |-> IF submission.selftext = None \/ Len(submission.selftext) = 0
                  THEN <<>> ELSE submission.selftext,
     score |-> submission.score,
     num_comments |-> submission.num_comments,
     url |-> <<"https://reddit.com">> \o submission.permalink]

\* asdict(post) with post_data["theme"] = theme
post_data(post, theme) ==
    [subreddit |-> post.subreddit, title |-> post.title,
     selftext |-> post.selftext, score |-> post.score,
     num_comments |-> post.num_comments, url |-> post.url, theme |-> theme]

\* An insert that ignores on_conflict
upsert_as_insert(rows, row) == rows \cup {row}

\* table("reddit_posts").upsert(post_data, on_conflict="url").execute()
upsert(rows, row) == {r \in rows : r.url # row.url} \cup {row}

\* History: the latest row of each url.
Latest(rows, row) == {r \in rows : r.url # row.url} \cup {row}

CoreOff ==
    /\ title = <<>> /\ selftext = <<>> /\ cpc = "off"
    /\ module = "" /\ call = "" /\ arg = <<>> /\ ret = <<>>

Init ==
    /\ pc = "idle" /\ runs = 0 /\ sub_idx = 0 /\ yielded = {}
    /\ table = {} /\ stdout = ""
    /\ lastAccepted = {} /\ lastSaved = {}
    /\ CoreOff

\* The script is started: run_scraper prints its banner and enters the loop
\* over target_subs. The table outlives the process.
StartRun ==
    /\ pc \in {"idle", "done", "crashed"}
    /\ runs < MaxRuns
    /\ runs' = runs + 1
    /\ sub_idx' = 1
    /\ yielded' = {}
    /\ pc' = "fetch"
    /\ stdout' = "starting"
    /\ UNCHANGED <<table, lastAccepted, lastSaved>>
    /\ UNCHANGED coreVars

\* The listing's request succeeds: the inner loop starts.
FetchOk ==
    /\ pc = "fetch"
    /\ pc' = "loop"
    /\ yielded' = {}
    /\ UNCHANGED <<runs, sub_idx, table, stdout, lastAccepted, lastSaved>>
    /\ UNCHANGED coreVars

\* The listing's request raises: nothing in run_scraper or in __main__
\* catches it, and the process ends with a traceback.
FetchRaises ==
    /\ pc = "fetch"
    /\ pc' = "crashed"
    /\ UNCHANGED <<runs, sub_idx, yielded, table, stdout, lastAccepted, lastSaved>>
    /\ UNCHANGED coreVars

\* One iteration of the inner loop on a submission the listing yields.
ProcessSubmission ==
    /\ pc = "loop"
    /\ Cardinality(yielded) < limit
    /\ \E submission \in RedditNew(target_subs[sub_idx]) :
         /\ submission.permalink \notin yielded
         /\ yielded' = yielded \cup {submission.permalink}
         /\ LET post == Post(target_subs[sub_idx], submission)
                row == post_data(post, scraper_assign_theme(post))
            IN  IF scraper_matches_keywords(post)
                THEN /\ lastAccepted' = Latest(lastAccepted, row)
                     /\ \/ /\ table' = upsert(table, row)
                           /\ stdout' = "saved"
                           /\ lastSaved' = Latest(lastSaved, row)
                        \/ /\ stdout' = "database error"
                           /\ UNCHANGED <<table, lastSaved>>
                ELSE UNCHANGED <<table, stdout, lastAccepted, lastSaved>>
    /\ UNCHANGED <<pc, runs, sub_idx>>
    /\ UNCHANGED coreVars

\* The listing is exhausted: the next subreddit, or the end of run_scraper
\* and the closing line of __main__.
ListingEnds ==
    /\ pc = "loop"
    /\ IF sub_idx < Len(target_subs)
       THEN /\ sub_idx' = sub_idx + 1
            /\ pc' = "fetch"
            /\ UNCHANGED stdout
       ELSE /\ pc' = "done"
            /\ stdout' = "complete"
            /\ UNCHANGED sub_idx
    /\ UNCHANGED <<runs, yielded, table, lastAccepted, lastSaved>>
    /\ UNCHANGED coreVars

Next ==
    \/ StartRun
    \/ FetchOk
    \/ FetchRaises
    \/ ProcessSubmission
    \/ ListingEnds

Spec == Init /\ [][Next]_vars

(***************************************************************************)
(* What the properties are stated with                                     *)
(***************************************************************************)
\* p is a contiguous substring of t.
Occurs(p, t) ==
    \E i \in 1..(Len(t) - Len(p) + 1) : SubSeq(t, i, i + Len(p) - 1) = p

Elements(seq) == {seq[i] : i \in DOMAIN seq}

\* The rule lists as the specification states them.
SpecBadPhrases ==
    { w_i_made, w_huge_update, w_showcase, w_tutorial, w_built_this,
      w_my_journey, w_project_update, w_update_to_my }

SpecHelpSignals ==
    { w_help, w_not_working, w_doesn_t_work, w_doesnt_work, w_can_t, w_cant,
      w_error, w_problem, w_beginner, w_newbie, w_how_do_i, w_why,
      w_confused, w_issue, w_fail, w_unable }

SpecKeywords ==
    { w_arduino, w_esp32, w_stm32, w_microcontroller, w_embedded, w_gpio,
      w_i2c, w_spi, w_uart, w_serial, w_firmware, w_sensor, w_adc, w_pwm,
      w_breadboard }

SpecGroups ==
    << {w_power, w_voltage, w_battery, w_5v, w_3_3v},
       {w_i2c, w_spi, w_uart, w_serial, w_can},
       {w_sensor, w_adc, w_analog, w_voltage_divider},
       {w_error, w_compile, w_upload, w_flash} >>

SpecThemes ==
    << "Wiring & Power", "Communication", "Analog & Sensors",
       "Build / Compile Errors" >>

Themes ==
    { "Wiring & Power", "Communication", "Analog & Sensors",
      "Build / Compile Errors", "General Beginner Help" }

HasAny(words, t) == \E w \in words : Occurs(w, t)

\* The text the rules read of a post or of a stored row.
TextOf(p) == normalize(p.title \o <<" ">> \o p.selftext)

\* The filter as the specification states it.
SpecAccepts(t) ==
    /\ ~HasAny(SpecBadPhrases, t)
    /\ HasAny(SpecHelpSignals, t)
    /\ HasAny(SpecKeywords, t)

\* The decision list as the specification states it: the theme of the first
\* group with a member in t.
SpecTheme(t) ==
    LET first == {g \in 1..4 : /\ HasAny(SpecGroups[g], t)
                               /\ \A h \in 1..(g - 1) : ~HasAny(SpecGroups[h], t)}
    IN  IF first = {} THEN "General Beginner Help"
        ELSE SpecThemes[CHOOSE g \in first : TRUE]

ReturnedFrom(m, f) == cpc = "returned" /\ module = m /\ call = f

(***************************************************************************)
(* Properties of the pure functions (SpecCore)                             *)
(***************************************************************************)
\* C1: insights matches_keywords returns true exactly when the normalized
\* title + " " + selftext contains none of the 8 bad phrases, at least one of
\* the 16 help signals and at least one of the 15 keywords, all by substring
\* containment.
C1_MatchesKeywordsIsTheThreePasses ==
    /\ Cardinality(SpecBadPhrases) = 8 /\ Elements(BAD_PHRASES) = SpecBadPhrases
    /\ Cardinality(SpecHelpSignals) = 16 /\ Elements(HELP_SIGNALS) = SpecHelpSignals
    /\ Cardinality(SpecKeywords) = 15 /\ Elements(KEYWORDS) = SpecKeywords
    /\ ReturnedFrom("insights", "matches_keywords")
           => ret = SpecAccepts(TextOf(CorePost))

\* A bad phrase written in mixed case over a whitespace run rejects a post
\* that holds a help signal and a keyword.
C1_Witness ==
    /\ ReturnedFrom("insights", "matches_keywords")
    /\ title = f_My_Journey \o f_Help
    /\ selftext = b_esp32_not_working
    /\ HasAny(SpecHelpSignals, TextOf(CorePost))
    /\ HasAny(SpecKeywords, TextOf(CorePost))
    /\ ret = FALSE

\* C2: insights assign_theme returns the theme of the first group, in the
\* order power, communication, sensors, errors, with a member in the
\* normalized text, and General Beginner Help when there is none; a text with
\* "voltage" and "error" is Wiring & Power.
C2_AssignThemeIsFirstMatch ==
    ReturnedFrom("insights", "assign_theme") =>
        /\ ret = SpecTheme(TextOf(CorePost))
        /\ (Occurs(w_voltage, TextOf(CorePost)) /\ Occurs(w_error, TextOf(CorePost)))
               => ret = "Wiring & Power"

C2_Witness ==
    /\ ReturnedFrom("insights", "assign_theme")
    /\ title = f_error \o f_Voltage_divider
    /\ Occurs(w_voltage, TextOf(CorePost))
    /\ Occurs(w_error, TextOf(CorePost))
    /\ ret = "Wiring & Power"

\* C3: assign_theme, of either file and on any post, accepted by the filter or
\* not, returns one of the five theme labels.
C3_AssignThemeIsTotal ==
    (cpc = "returned" /\ call = "assign_theme") => ret \in Themes

\* The fallback on a post the filter rejects.
C3_Witness ==
    /\ ReturnedFrom("insights", "assign_theme")
    /\ title = f_why
    /\ ~matches_keywords(CorePost)
    /\ ret = "General Beginner Help"

\* C5: normalize applied to its own result returns it unchanged.
C5_NormalizeIsIdempotent ==
    cpc = "renormalized" => ret = arg

\* The second call on the result of normalizing tab, newline, "Help".
C5_Witness ==
    /\ cpc = "renormalized"
    /\ title = f_tab_newline \o f_Help
    /\ arg = <<" ", "h", "e", "l", "p">>
    /\ ret = arg

IsWs(c) == c \in Whitespace

\* s[i] is the first character of a maximal run of whitespace.
RunStart(s, i) == IsWs(s[i]) /\ (i = 1 \/ ~IsWs(s[i - 1]))

\* How many characters of the result s[1..i] accounts for: one for each
\* character that is no whitespace and one for each run of whitespace.
Image(s, i) == Cardinality({j \in 1..i : ~IsWs(s[j]) \/ RunStart(s, j)})

\* r is s in lower case with every maximal run of whitespace replaced by one
\* space.
Collapsed(s, r) ==
    /\ Len(r) = Image(s, Len(s))
    /\ \A i \in 1..Len(s) :
           /\ ~IsWs(s[i]) => r[Image(s, i)] = chr_lower(s[i])
           /\ RunStart(s, i) => r[Image(s, i)] = " "

\* C6: normalize returns "" for an empty or absent input and otherwise the
\* lower-cased input with each maximal whitespace run replaced by one space:
\* no upper-case letter, no whitespace but the space, no two adjacent spaces,
\* and a leading (trailing) space exactly when the input began (ended) with
\* whitespace.
C6_NormalizeCollapsesWithoutTrimming ==
    ReturnedFrom("insights", "normalize") =>
        IF arg = None \/ arg = <<>>
        THEN ret = <<>>
        ELSE /\ Collapsed(arg, ret)
             /\ \A i \in DOMAIN ret :
                    /\ ret[i] \notin Elements(UpperLetters)
                    /\ IsWs(ret[i]) => ret[i] = " "
                    /\ (i > 1 /\ ret[i] = " ") => ret[i - 1] # " "
             /\ Len(ret) > 0
             /\ (ret[1] = " ") <=> IsWs(arg[1])
             /\ (ret[Len(ret)] = " ") <=> IsWs(arg[Len(arg)])

\* An input with capitals, an inner run of three whitespace characters and a
\* trailing tab and newline: the trailing run becomes one space and stays.
C6_Witness ==
    /\ ReturnedFrom("insights", "normalize")
    /\ arg = f_My_Journey \o f_tab_newline
    /\ ret = <<"m","y"," ","j","o","u","r","n","e","y"," ">>

\* C10: a text that holds "can't" or "cant" holds "can", so insights
\* assign_theme gives it Wiring & Power or Communication.
C10_CantIsPowerOrCommunication ==
    ( /\ ReturnedFrom("insights", "assign_theme")
      /\ \/ Occurs(w_can_t, TextOf(CorePost))
         \/ Occurs(w_cant, TextOf(CorePost)) )
        => ret \in {"Wiring & Power", "Communication"}

\* "can't" beside "error" and no word of the power group: Communication, not
\* Build / Compile Errors.
C10_Witness ==
    /\ ReturnedFrom("insights", "assign_theme")
    /\ title = f_can_t \o f_error
    /\ Occurs(w_can_t, TextOf(CorePost))
    /\ ~HasAny(SpecGroups[1], TextOf(CorePost))
    /\ ret = "Communication"

(***************************************************************************)
(* Properties of run_scraper (Spec)                                        *)
(***************************************************************************)
\* C4: every row handed to persistence is a post without any of the eight bad
\* phrases, with a help signal and with a keyword of the broader lists.
C4_StoredRowsPassTheBroadFilter ==
    \A r \in table : SpecAccepts(TextOf(r))

AtMostOneRowPerUrl == \A r1, r2 \in table : r1.url = r2.url => r1 = r2

C8_FaultsAreCaughtAtTheBoundary ==
    /\ pc # "crashed"
    /\ pc = "done" => sub_idx = Len(target_subs)

\* C9: the theme of every stored row is the one the specification's group
\* order gives, the one insights assign_theme returns.
C9_StoredThemeFollowsGroupOrder ==
    \A r \in table : r.theme = SpecTheme(TextOf(r)) /\ r.theme = assign_theme(r)

====
